---- MODULE Spec2Model ----
(***************************************************************************)
(* Model of app/(chat)/api/chat/route.ts: the POST and DELETE handlers of  *)
(* the chat endpoint, the resumable-stream delivery, and the decoding loop *)
(* of the web-automation tool.                                             *)
(*                                                                         *)
(* Spec        : one POST or DELETE request, one action per await of its   *)
(*               handler, with the generation run, the delivery leg and    *)
(*               the client of the response.                               *)
(* FairSpec    : Spec with the fairness of the event loop.                 *)
(* SpecAdapter : webAutomationTool.execute over a chunked response body.   *)
(* SpecRace    : two POST requests whose handlers interleave at their      *)
(*               awaits.                                                   *)
(***************************************************************************)
EXTENDS Integers, Sequences, FiniteSets, TLC

\* ------------------------------------------------------------------ bounds
MaxGuestPerDay == 1       \* entitlementsByUserType.guest.maxMessagesPerDay (scaled down)
MaxRegularPerDay == 2     \* entitlementsByUserType.regular.maxMessagesPerDay (scaled down)
MaxEvents == 2            \* events one generation run may produce
MaxDrops == 1             \* times a client may disconnect from one response

Reqs == {1, 2}
Users == {"u1", "u2"}
NoUser == "none"
ChatIds == {"c1"}
NoChat == "nochat"

\* ------------------------------------------------------------ collaborators
UserTypeOf(u) == IF u = "u1" THEN "guest" ELSE "regular"

maxMessagesPerDay(userType) ==
    IF userType = "guest" THEN MaxGuestPerDay ELSE MaxRegularPerDay

\* ------------------------------------------------------------ message parts
\* A text is a sequence of characters; a part is [type, text].
Text(chars) == [type |-> "text", text |-> chars]
File == [type |-> "file", text |-> << >>]

UpperCase == <<"A", "B", "C", "D", "E", "F", "G", "H", "I", "J", "K", "L",
               "M", "N", "O", "P", "Q", "R", "S", "T", "U", "V", "W", "X",
               "Y", "Z">>
LowerCase == <<"a", "b", "c", "d", "e", "f", "g", "h", "i", "j", "k", "l",
               "m", "n", "o", "p", "q", "r", "s", "t", "u", "v", "w", "x",
               "y", "z">>

\* String.prototype.toLowerCase
toLowerCase(text) ==
    [i \in DOMAIN text |->
        IF \E k \in DOMAIN UpperCase : UpperCase[k] = text[i]
        THEN LowerCase[CHOOSE k \in DOMAIN UpperCase : UpperCase[k] = text[i]]
        ELSE text[i]]

\* String.prototype.includes
includes(text, word) ==
    \E i \in 0 .. (Len(text) - Len(word)) :
        SubSeq(text, i + 1, i + Len(word)) = word

\* lines 246-254: the keywords of the routing
Keywords ==
    { <<"s", "c", "r", "e", "e", "n", "s", "h", "o", "t">>,
      <<"n", "a", "v", "i", "g", "a", "t", "e">>,
      <<"b", "r", "o", "w", "s", "e", "r">>,
      <<"w", "e", "b", "s", "i", "t", "e">>,
      <<"w", "e", "b">>,
      <<"a", "u", "t", "o", "m", "a", "t", "i", "o", "n">>,
      <<"p", "l", "a", "y", "w", "r", "i", "g", "h", "t">>,
      <<"f", "i", "l", "l", " ", "f", "o", "r", "m">>,
      <<"c", "l", "i", "c", "k">> }

includesKeyword(text) == \E word \in Keywords : includes(text, word)

\* line 243: parts.find(part => part.type === 'text')?.text?.toLowerCase() || ''
\* is the text of the first text part, in lower case
messageText(parts) ==
    LET texts == {i \in DOMAIN parts : parts[i].type = "text"} IN
    IF texts = {} THEN << >>
    ELSE toLowerCase(parts[CHOOSE i \in texts : \A j \in texts : i <= j].text)

\* the parts of the inbound messages
Hello == <<"h", "i">>
InboundMessages ==
    { <<Text(Hello)>>,                                   \* hi
      <<Text(<<"W", "e", "B">>)>>,                       \* WeB
      <<Text(<<"F", "i", "l", "l", " ", "f", "o", "r", "m">>)>>,  \* Fill form
      <<File, Text(<<"c", "l", "i", "c", "k">>)>>,       \* a file, then: click
      <<Text(Hello), Text(<<"c", "l", "i", "c", "k">>)>>,  \* hi, then: click
      <<File>> }                                         \* no text part

VARIABLES
    redisUrl,     \* environment: REDIS_URL is configured
    globalStreamContext, \* module-level cache: TRUE once a context was created
    chats,        \* chat id -> owning user, NoUser when no row exists
    messages,     \* the Message table, in insertion order
    streams,      \* the Stream table: set of [streamId, chatId]
    priorCount,   \* user -> user messages of the last 24 h in chats not modelled
    pc,           \* request -> position in its handler
    method,       \* request -> "none" | "POST" | "DELETE"
    body,         \* request -> [valid, id, parts]
    session,      \* request -> the user auth() resolves, NoUser when none
    local,        \* request -> [messageCount, chat, uiMessages, streamId]
    response,     \* request -> what the handler returned
    fx,           \* request -> collaborator calls with side effects it has made
    plan,         \* request -> generation plan issued by the stream's execute
    gen,          \* request -> [status, produced]: the model stream of streamText
    delivery,     \* request -> "none" | "resumable" | "direct"
    channel,      \* request -> events the delivery leg has taken from the UI stream
    client,       \* request -> [attached, cursor, received, drops, resumedAt]
    tool          \* one call of webAutomationTool.execute

dbVars == <<chats, messages, streams>>
fixedVars == <<priorCount, tool>>   \* what no request handler writes
reqVars == <<pc, method, body, session, local, response, fx>>
streamVars == <<plan, gen, delivery, channel, client>>
envVars == <<redisUrl, globalStreamContext>>
vars == <<redisUrl, globalStreamContext, chats, messages, streams, priorCount,
          pc, method, body, session, local, response, fx,
          plan, gen, delivery, channel, client, tool>>

Owners == Users \cup {NoUser}

\* ids of messages: a request's user message, the message its run generates
UserMsgId(r) == r
AssistantMsgId(r) == 10 + r

InitialHistory(c) ==
    << [chatId |-> c, id |-> 101, role |-> "user", req |-> 0],
       [chatId |-> c, id |-> 102, role |-> "assistant", req |-> 0] >>

RECURSIVE SeqFilterChat(_, _)
SeqFilterChat(ms, c) ==
    IF ms = << >> THEN << >>
    ELSE IF Head(ms).chatId = c THEN <<Head(ms)>> \o SeqFilterChat(Tail(ms), c)
         ELSE SeqFilterChat(Tail(ms), c)

\* persistence collaborator (lib/db/queries), as the handlers use it
getChatById(id) == chats[id]

getMessagesByChatId(id) == SeqFilterChat(messages, id)

getMessageCountByUserId(u) ==
    priorCount[u]
    + Cardinality({i \in DOMAIN messages :
                     /\ messages[i].role = "user"
                     /\ chats[messages[i].chatId] = u})

convertToUIMessages(ms) == [i \in DOMAIN ms |-> ms[i].id]

\* a collaborator call either returns or throws; a thrown value is a
\* ChatSDKError or some other exception
Outcomes == {"ok", "ChatSDKError", "Error"}

\* a handler without the catch block: what is thrown leaves the handler
CatchResponseRethrows(thrown) == "exception"

\* lines 367-374: the catch block of POST
CatchResponse(thrown) ==
    IF thrown = "ChatSDKError" THEN "chat_sdk_error:thrown"
    ELSE "internal_server_error:api"

\* messageCount is -1 until getMessageCountByUserId has returned
NoLocal == [messageCount |-> -1, chat |-> NoUser, uiMessages |-> << >>, streamId |-> 0]
NoBody == [valid |-> FALSE, id |-> NoChat, parts |-> << >>]
NoGen == [status |-> "idle", produced |-> 0]
NoClient == [attached |-> FALSE, cursor |-> 0, received |-> << >>, drops |-> 0,
             resumedAt |-> -1]

NoTool == [pc |-> "idle", wire |-> << >>, pos |-> 0, chunk |-> << >>,
           fullResult |-> << >>, finishCount |-> 0, failure |-> "none",
           result |-> << >>]

PriorCounts(u) ==
    { n \in 0 .. (maxMessagesPerDay(UserTypeOf(u)) + 1) :
        n >= maxMessagesPerDay(UserTypeOf(u)) - 1 }

Init ==
    /\ redisUrl \in BOOLEAN
    /\ globalStreamContext \in (IF redisUrl THEN BOOLEAN ELSE {FALSE})
    /\ chats \in [ChatIds -> Owners]
    /\ messages = IF chats["c1"] = NoUser THEN << >> ELSE InitialHistory("c1")
    /\ streams = {}
    /\ \E pcnt \in [Users -> 0 .. (MaxRegularPerDay + 1)] :
          /\ \A u \in Users : pcnt[u] \in PriorCounts(u)
          /\ priorCount = pcnt
    /\ pc = [r \in Reqs |-> "idle"]
    /\ method = [r \in Reqs |-> "none"]
    /\ body = [r \in Reqs |-> NoBody]
    /\ session = [r \in Reqs |-> NoUser]
    /\ local = [r \in Reqs |-> NoLocal]
    /\ response = [r \in Reqs |-> "none"]
    /\ fx = [r \in Reqs |-> {}]
    /\ plan = [r \in Reqs |-> "none"]
    /\ gen = [r \in Reqs |-> NoGen]
    /\ delivery = [r \in Reqs |-> "none"]
    /\ channel = [r \in Reqs |-> << >>]
    /\ client = [r \in Reqs |-> NoClient]
    /\ tool = NoTool

\* return <value> from the handler
Return(r, value) ==
    /\ pc' = [pc EXCEPT ![r] = "done"]
    /\ response' = [response EXCEPT ![r] = value]

Goto(r, label) ==
    /\ pc' = [pc EXCEPT ![r] = label]
    /\ UNCHANGED response

\* -------------------------------------------------------------------- POST
\* lines 71-76: request.json() and postRequestBodySchema.parse
PostParse(r) ==
    /\ pc[r] = "idle"
    /\ \E v \in BOOLEAN, c \in ChatIds, m \in InboundMessages, u \in Owners :
          /\ method' = [method EXCEPT ![r] = "POST"]
          /\ body' = [body EXCEPT ![r] = [valid |-> v, id |-> c, parts |-> m]]
          /\ session' = [session EXCEPT ![r] = u]
          /\ IF v THEN Goto(r, "auth") ELSE Return(r, "bad_request:api")
    /\ UNCHANGED <<dbVars, fixedVars, envVars, streamVars, local, fx>>

\* lines 91-95: auth()
PostAuth(r) ==
    /\ pc[r] = "auth"
    /\ IF session[r] = NoUser
         THEN Return(r, "unauthorized:chat")
         ELSE Goto(r, "quota")
    /\ UNCHANGED <<dbVars, fixedVars, envVars, streamVars, method, body, session, local, fx>>

\* line 104: the comparison of the quota check
OverQuota(messageCount, cap) == messageCount > cap

\* lines 97-106: getMessageCountByUserId and the quota check
PostQuota(r) ==
    /\ pc[r] = "quota"
    /\ \E o \in Outcomes :
          IF o # "ok"
          THEN Return(r, CatchResponse(o)) /\ UNCHANGED local
          ELSE LET messageCount == getMessageCountByUserId(session[r]) IN
               /\ local' = [local EXCEPT ![r].messageCount = messageCount]
               /\ IF OverQuota(messageCount,
                               maxMessagesPerDay(UserTypeOf(session[r])))
                    THEN Return(r, "rate_limit:chat")
                    ELSE Goto(r, "getChat")
    /\ UNCHANGED <<dbVars, fixedVars, envVars, streamVars, method, body, session, fx>>

\* the comparison of line 122 the wrong way round
OwnerMismatchInverted(chat, user) == chat = user

\* line 122: chat.userId !== session.user.id
OwnerMismatch(chat, user) == chat # user

\* the ownership check made only after the user message was saved
PostGetChatSavesFirst(r) ==
    /\ pc[r] = "getChat"
    /\ LET chat == getChatById(body[r].id) IN
       /\ local' = [local EXCEPT ![r].chat = chat]
       /\ IF chat = NoUser THEN Goto(r, "saveChat") /\ UNCHANGED <<messages, fx>>
          ELSE IF OwnerMismatch(chat, session[r])
               THEN /\ messages' = Append(messages,
                          [chatId |-> body[r].id, id |-> UserMsgId(r),
                           role |-> "user", req |-> r])
                    /\ fx' = [fx EXCEPT ![r] = @ \cup {"saveMessages"}]
                    /\ Return(r, "forbidden:chat")
          ELSE Goto(r, "getMessages") /\ UNCHANGED <<messages, fx>>
    /\ UNCHANGED <<chats, streams, fixedVars, envVars, streamVars, method, body,
                   session>>

\* the owner of an existing chat not compared with the caller
PostGetChatAnyOwner(r) ==
    /\ pc[r] = "getChat"
    /\ \E o \in Outcomes :
          IF o # "ok"
          THEN Return(r, CatchResponse(o)) /\ UNCHANGED local
          ELSE LET chat == getChatById(body[r].id) IN
               /\ local' = [local EXCEPT ![r].chat = chat]
               /\ IF chat = NoUser THEN Goto(r, "saveChat")
                  ELSE Goto(r, "getMessages")
    /\ UNCHANGED <<dbVars, fixedVars, envVars, streamVars, method, body, session, fx>>

\* lines 108-125: getChatById and the ownership check
PostGetChat(r) ==
    /\ pc[r] = "getChat"
    /\ \E o \in Outcomes :
          IF o # "ok"
          THEN Return(r, CatchResponse(o)) /\ UNCHANGED local
          ELSE LET chat == getChatById(body[r].id) IN
               /\ local' = [local EXCEPT ![r].chat = chat]
               /\ IF chat = NoUser THEN Goto(r, "saveChat")
                  ELSE IF OwnerMismatch(chat, session[r])
                       THEN Return(r, "forbidden:chat")
                  ELSE Goto(r, "getMessages")
    /\ UNCHANGED <<dbVars, fixedVars, envVars, streamVars, method, body, session, fx>>

\* saveChat is an insert: it throws when a row with this id exists
saveChatOutcomes(id) ==
    IF getChatById(id) = NoUser THEN Outcomes ELSE Outcomes \ {"ok"}

\* lines 111-120: generateTitleFromUserMessage and saveChat
PostSaveChat(r) ==
    /\ pc[r] = "saveChat"
    /\ fx' = [fx EXCEPT ![r] = @ \cup {"saveChat"}]
    /\ \E o \in saveChatOutcomes(body[r].id) :
          /\ IF o # "ok"
             THEN Return(r, CatchResponse(o)) /\ UNCHANGED chats
             ELSE /\ chats' = [chats EXCEPT ![body[r].id] = session[r]]
                  /\ Goto(r, "getMessages")
    /\ UNCHANGED <<messages, streams, fixedVars, envVars, streamVars,
                   method, body, session, local>>

\* the inbound message put in front of the persisted ones
PostGetMessagesNewFirst(r) ==
    /\ pc[r] = "getMessages"
    /\ local' = [local EXCEPT ![r].uiMessages =
          <<UserMsgId(r)>>
            \o convertToUIMessages(getMessagesByChatId(body[r].id))]
    /\ Goto(r, "saveMessages")
    /\ UNCHANGED <<dbVars, fixedVars, envVars, streamVars, method, body, session, fx>>

\* lines 127-128: getMessagesByChatId and uiMessages
PostGetMessages(r) ==
    /\ pc[r] = "getMessages"
    /\ \E o \in Outcomes :
          IF o # "ok"
          THEN Return(r, CatchResponse(o)) /\ UNCHANGED local
          ELSE /\ local' = [local EXCEPT ![r].uiMessages =
                     convertToUIMessages(getMessagesByChatId(body[r].id))
                       \o <<UserMsgId(r)>>]
               /\ Goto(r, "saveMessages")
    /\ UNCHANGED <<dbVars, fixedVars, envVars, streamVars, method, body, session, fx>>

\* a saveMessages that has written the row when it throws
PostSaveMessagesThrowsAfterWrite(r) ==
    /\ pc[r] = "saveMessages"
    /\ fx' = [fx EXCEPT ![r] = @ \cup {"saveMessages"}]
    /\ messages' = Append(messages,
           [chatId |-> body[r].id, id |-> UserMsgId(r),
            role |-> "user", req |-> r])
    /\ \E o \in Outcomes :
          IF o # "ok" THEN Return(r, CatchResponse(o))
          ELSE Goto(r, "createStreamId")
    /\ UNCHANGED <<chats, streams, fixedVars, envVars, streamVars,
                   method, body, session, local>>

\* lines 139-150: saveMessages of the user message
PostSaveMessages(r) ==
    /\ pc[r] = "saveMessages"
    /\ fx' = [fx EXCEPT ![r] = @ \cup {"saveMessages"}]
    /\ \E o \in Outcomes :
          IF o # "ok"
          THEN Return(r, CatchResponse(o)) /\ UNCHANGED messages
          ELSE /\ messages' = Append(messages,
                     [chatId |-> body[r].id, id |-> UserMsgId(r),
                      role |-> "user", req |-> r])
               /\ Goto(r, "createStreamId")
    /\ UNCHANGED <<chats, streams, fixedVars, envVars, streamVars,
                   method, body, session, local>>

\* line 152: generateUUID, an identifier no stream has used
generateUUID == CHOOSE i \in 1 .. (Cardinality(Reqs) + Cardinality(streams)) :
                  /\ \A s \in streams : s.streamId # i
                  /\ \A q \in Reqs : local[q].streamId # i

\* lines 152-153: createStreamId
PostCreateStreamId(r) ==
    /\ pc[r] = "createStreamId"
    /\ fx' = [fx EXCEPT ![r] = @ \cup {"createStreamId"}]
    /\ LET streamId == generateUUID IN
       /\ local' = [local EXCEPT ![r].streamId = streamId]
       /\ \E o \in Outcomes :
             IF o # "ok"
             THEN Return(r, CatchResponse(o)) /\ UNCHANGED streams
             ELSE /\ streams' = streams \cup
                        {[streamId |-> streamId, chatId |-> body[r].id]}
                  /\ Goto(r, "respond")
    /\ UNCHANGED <<chats, messages, fixedVars, envVars, streamVars,
                   method, body, session>>


\* ------------------------------------------------------- stream and delivery
\* lines 242-254: isWebAutomationRequest of the latest message, which is the
\* inbound one
isWebAutomationRequest(r) == includesKeyword(messageText(body[r].parts))

\* lines 256-336: the plan of the streamText call that execute issues; the
\* catch of the automation branch takes a throw of the streamText call itself
SelectPlan(r, callThrows) ==
    IF isWebAutomationRequest(r)
    THEN IF callThrows THEN "fallback" ELSE "automation"
    ELSE "standard"

\* createResumableStreamContext: it needs REDIS_URL
CreateOutcomes == IF redisUrl THEN {"ok", "Error"} ELSE {"REDIS_URL"}

\* getStreamContext letting an error other than the missing REDIS_URL escape
getStreamContextRethrows(created) ==
    IF globalStreamContext THEN [context |-> TRUE, thrown |-> FALSE]
    ELSE IF created = "ok" THEN [context |-> TRUE, thrown |-> FALSE]
    ELSE IF created = "REDIS_URL" THEN [context |-> FALSE, thrown |-> FALSE]
    ELSE [context |-> FALSE, thrown |-> TRUE]

\* lines 48-66: getStreamContext, with the outcome of creating a context
\* when none is cached; both kinds of creation error are logged and swallowed
getStreamContext(created) ==
    IF globalStreamContext THEN [context |-> TRUE, thrown |-> FALSE]
    ELSE IF created = "ok" THEN [context |-> TRUE, thrown |-> FALSE]
    ELSE [context |-> FALSE, thrown |-> FALSE]

\* lines 356-366: what POST returns once the stream exists, given the stream
\* context and the outcome of streamContext.resumableStream
DeliveryResponse(sc, registered) ==
    IF sc.thrown THEN [response |-> CatchResponse("Error"), delivery |-> "none"]
    ELSE IF sc.context
         THEN IF registered = "ok"
              THEN [response |-> "stream", delivery |-> "resumable"]
              ELSE [response |-> CatchResponse(registered), delivery |-> "none"]
         ELSE [response |-> "stream", delivery |-> "direct"]

\* lines 239-366: createUIMessageStream runs execute (routing, streamText,
\* consumeStream, merge), then the response is built
PostRespond(r) ==
    /\ pc[r] = "respond"
    /\ fx' = [fx EXCEPT ![r] = @ \cup {"streamText"}]
    /\ \E callThrows \in BOOLEAN :
          /\ callThrows => isWebAutomationRequest(r)
          /\ plan' = [plan EXCEPT ![r] = SelectPlan(r, callThrows)]
    /\ gen' = [gen EXCEPT ![r] = [status |-> "running", produced |-> 0]]
    /\ \E created \in CreateOutcomes, registered \in Outcomes :
          LET sc == getStreamContext(created)
              d == DeliveryResponse(sc, registered)
          IN /\ (~sc.context) => registered = "ok"
             /\ globalStreamContext' = sc.context
             /\ delivery' = [delivery EXCEPT ![r] = d.delivery]
             /\ client' = [client EXCEPT ![r].attached = (d.response = "stream")]
             /\ IF d.response = "stream"
                  THEN /\ pc' = [pc EXCEPT ![r] = "streaming"]
                       /\ response' = [response EXCEPT ![r] = "stream"]
                  ELSE Return(r, d.response)
    /\ UNCHANGED <<dbVars, fixedVars, redisUrl, channel, method, body, session, local>>

\* without consumeStream the model stream is read only as the response is
UpstreamDemandBackpressure(r) == delivery[r] = "resumable" \/ client[r].attached

\* lines 277, 292, 329: result.consumeStream() reads the model stream whether
\* or not anything reads the response
UpstreamDemand(r) == TRUE

Generating(r) == gen[r].status = "running" /\ UpstreamDemand(r)

\* the model stream yields one more event
GenEmit(r) ==
    /\ Generating(r)
    /\ gen[r].produced < MaxEvents
    /\ gen' = [gen EXCEPT ![r].produced = @ + 1]
    /\ UNCHANGED <<dbVars, fixedVars, envVars, reqVars, plan, delivery, channel, client>>

\* the model stream ends
GenEnd(r) ==
    /\ Generating(r)
    /\ gen' = [gen EXCEPT ![r].status = "ended"]
    /\ UNCHANGED <<dbVars, fixedVars, envVars, reqVars, plan, delivery, channel, client>>

\* lines 351-353: the model stream fails; onError turns it into the in-band
\* message, the response stays as it is
GenError(r) ==
    /\ Generating(r)
    /\ gen' = [gen EXCEPT ![r].status = "errored"]
    /\ UNCHANGED <<dbVars, fixedVars, envVars, reqVars, plan, delivery, channel, client>>

\* events of the UI message stream of request r: the events of the model
\* stream, then the in-band error message when the model stream failed
ErrorEvent == 99

UiEvents(r) ==
    [i \in 1 .. gen[r].produced |-> i]
      \o (IF gen[r].status = "errored" THEN <<ErrorEvent>> ELSE << >>)

\* lines 359-363: the resumable stream takes the events of the stream it was
\* given into the durable channel, with or without a client
Publish(r) ==
    /\ delivery[r] = "resumable"
    /\ Len(channel[r]) < Len(UiEvents(r))
    /\ channel' = [channel EXCEPT ![r] = Append(@, UiEvents(r)[Len(@) + 1])]
    /\ UNCHANGED <<dbVars, fixedVars, envVars, reqVars, plan, gen, delivery, client>>

\* what the attached client reads from: the durable channel, or the stream
Source(r) == IF delivery[r] = "resumable" THEN channel[r] ELSE UiEvents(r)

\* one event reaches the attached client
Deliver(r) ==
    /\ delivery[r] # "none"
    /\ client[r].attached
    /\ client[r].cursor < Len(Source(r))
    /\ client' = [client EXCEPT
                    ![r].cursor = @ + 1,
                    ![r].received = Append(@, Source(r)[client[r].cursor + 1])]
    /\ UNCHANGED <<dbVars, fixedVars, envVars, reqVars, plan, gen, delivery, channel>>

\* the client disconnects from the response
Disconnect(r) ==
    /\ delivery[r] # "none"
    /\ client[r].attached
    /\ client[r].drops < MaxDrops
    /\ client' = [client EXCEPT ![r].attached = FALSE, ![r].drops = @ + 1]
    /\ UNCHANGED <<dbVars, fixedVars, envVars, reqVars, plan, gen, delivery, channel>>

\* a reattaching client is replayed the run from its first event
ResumeFromStart(r) == 0

\* where a reattaching client continues: after the events it has received
ResumePosition(r) == Len(client[r].received)

\* the client reattaches with the StreamHandle identifier of the run
Reattach(r) ==
    /\ delivery[r] = "resumable"
    /\ ~client[r].attached
    /\ client' = [client EXCEPT ![r].attached = TRUE,
                                ![r].cursor = ResumePosition(r),
                                ![r].resumedAt = ResumePosition(r)]
    /\ UNCHANGED <<dbVars, fixedVars, envVars, reqVars, plan, gen, delivery, channel>>

\* the delivery leg has taken every event of the ended stream, or was
\* cancelled by the client going away
DeliveryDrained(r) ==
    IF delivery[r] = "resumable" THEN Len(channel[r]) = Len(UiEvents(r))
    ELSE (~client[r].attached) \/ client[r].cursor = Len(UiEvents(r))

\* onFinish called without waiting for the end of the model stream
OnFinishEarly(r) ==
    /\ pc[r] = "streaming"
    /\ fx' = [fx EXCEPT ![r] = @ \cup {"onFinish"}]
    /\ messages' = Append(messages,
           [chatId |-> body[r].id, id |-> AssistantMsgId(r),
            role |-> "assistant", req |-> r])
    /\ pc' = [pc EXCEPT ![r] = "done"]
    /\ UNCHANGED <<chats, streams, fixedVars, envVars, streamVars,
                   method, body, session, local, response>>

\* lines 339-350: onFinish hands the generated messages to saveMessages
OnFinish(r) ==
    /\ pc[r] = "streaming"
    /\ gen[r].status \in {"ended", "errored"}
    /\ DeliveryDrained(r)
    /\ fx' = [fx EXCEPT ![r] = @ \cup {"onFinish"}]
    /\ \E o \in Outcomes :
          /\ (chats[body[r].id] = NoUser) => o # "ok"
          /\ IF o = "ok"
             THEN messages' = Append(messages,
                     [chatId |-> body[r].id, id |-> AssistantMsgId(r),
                      role |-> "assistant", req |-> r])
             ELSE UNCHANGED messages
    /\ pc' = [pc EXCEPT ![r] = "done"]
    /\ UNCHANGED <<chats, streams, fixedVars, envVars, streamVars,
                   method, body, session, local, response>>

\* ------------------------------------------------------------------ DELETE
\* lines 378-383: the id query parameter
DeleteParse(r) ==
    /\ pc[r] = "idle"
    /\ \E v \in BOOLEAN, c \in ChatIds, u \in Owners :
          /\ method' = [method EXCEPT ![r] = "DELETE"]
          /\ body' = [body EXCEPT ![r] = [valid |-> v, id |-> c, parts |-> << >>]]
          /\ session' = [session EXCEPT ![r] = u]
          /\ IF v THEN Goto(r, "d_auth") ELSE Return(r, "bad_request:api")
    /\ UNCHANGED <<dbVars, fixedVars, envVars, streamVars, local, fx>>

\* lines 385-389: auth()
DeleteAuth(r) ==
    /\ pc[r] = "d_auth"
    /\ IF session[r] = NoUser
         THEN Return(r, "unauthorized:chat")
         ELSE Goto(r, "d_getChat")
    /\ UNCHANGED <<dbVars, fixedVars, envVars, streamVars, method, body, session, local, fx>>

\* lines 391-395: getChatById and the ownership check; DELETE has no catch,
\* and chat.userId of a missing chat is a TypeError
DeleteGetChat(r) ==
    /\ pc[r] = "d_getChat"
    /\ \E o \in Outcomes :
          IF o # "ok"
          THEN Return(r, "exception") /\ UNCHANGED local
          ELSE LET chat == getChatById(body[r].id) IN
               /\ local' = [local EXCEPT ![r].chat = chat]
               /\ IF chat = NoUser THEN Return(r, "exception")
                  ELSE IF chat # session[r] THEN Return(r, "forbidden:chat")
                  ELSE Goto(r, "d_delete")
    /\ UNCHANGED <<dbVars, fixedVars, envVars, streamVars, method, body, session, fx>>

RECURSIVE SeqDropChat(_, _)
SeqDropChat(ms, c) ==
    IF ms = << >> THEN << >>
    ELSE IF Head(ms).chatId = c THEN SeqDropChat(Tail(ms), c)
         ELSE <<Head(ms)>> \o SeqDropChat(Tail(ms), c)

\* lines 397-399: deleteChatById removes the chat with its messages and
\* stream ids
DeleteChat(r) ==
    /\ pc[r] = "d_delete"
    /\ fx' = [fx EXCEPT ![r] = @ \cup {"deleteChatById"}]
    /\ \E o \in Outcomes :
          IF o # "ok"
          THEN Return(r, "exception") /\ UNCHANGED <<chats, messages, streams>>
          ELSE /\ chats' = [chats EXCEPT ![body[r].id] = NoUser]
               /\ messages' = SeqDropChat(messages, body[r].id)
               /\ streams' = {s \in streams : s.chatId # body[r].id}
               /\ Return(r, "200")
    /\ UNCHANGED <<fixedVars, envVars, streamVars, method, body, session, local>>

\* ------------------------------------------- webAutomationTool.execute
\* The response body is a sequence of characters.  "Q" stands for the double
\* quote and "NL" for the line terminator; "F" stands for the text of a JSON
\* object with a non-empty finishReason, "N" for the text null.
NL == "NL"
Q == "Q"

ContentA == <<"0", ":", Q, "a", Q>>       \* 0:"a"
ContentB == <<"0", ":", Q, "b", Q>>       \* 0:"b"
FinishLine == <<"e", ":", "F">>           \* e:{"finishReason":"stop"}
BareContent == <<"0", ":", "a">>          \* 0:a      (payload not quoted)
BadJson == <<"e", ":", "x">>              \* e:x      (invalid JSON)
NullJson == <<"e", ":", "N">>             \* e:null   (JSON, not an object)
OtherLine == <<"x">>                      \* neither prefix

Lines == {ContentA, ContentB, FinishLine, BareContent, BadJson, NullJson,
          OtherLine}

MaxLines == 3             \* lines of one response body

RECURSIVE Join(_)
Join(ls) == IF ls = << >> THEN << >> ELSE Head(ls) \o <<NL>> \o Join(Tail(ls))

Wires == UNION { {Join(ls) : ls \in [1 .. n -> Lines]} : n \in 1 .. MaxLines }

FallbackText == <<"Web automation completed successfully.">>

\* line 233: the explanation returned from the catch block
FailureText(error) == <<"Web automation is currently unavailable. Error: ", error>>

\* line 201: chunk.split('\n')
RECURSIVE Split(_)
Split(s) ==
    IF \A i \in DOMAIN s : s[i] # NL THEN <<s>>
    ELSE LET i == CHOOSE j \in DOMAIN s :
                    s[j] = NL /\ \A k \in 1 .. (j - 1) : s[k] # NL
         IN <<SubSeq(s, 1, i - 1)>> \o Split(SubSeq(s, i + 1, Len(s)))

\* line.startsWith(prefix), for a prefix of two characters
StartsWith(line, c1, c2) == Len(line) >= 2 /\ line[1] = c1 /\ line[2] = c2

\* the payload taken as line.slice(2), quoted or not
ContentTextUnquoted(line) == SubSeq(line, 3, Len(line))

\* lines 207-210: line.match(/^0:"(.*)"/) and textMatch[1]; (.*) is greedy,
\* so the match ends at the last quote of the line
ContentText(line) ==
    LET quotes == {i \in 4 .. Len(line) : line[i] = Q} IN
    IF Len(line) >= 4 /\ line[3] = Q /\ quotes # {}
    THEN SubSeq(line, 4, (CHOOSE i \in quotes : \A j \in quotes : j <= i) - 1)
    ELSE << >>

\* line 217: JSON.parse(line.slice(2)): the kind of value, "invalid" when
\* JSON.parse throws
JSONparse(text) ==
    IF text = <<"F">> THEN "finish"
    ELSE IF text = <<"N">> THEN "null"
    ELSE IF text = <<"0">> THEN "number"
    ELSE IF /\ Len(text) >= 2
            /\ text[1] = Q
            /\ text[Len(text)] = Q
            /\ \A i \in 2 .. (Len(text) - 1) : text[i] \in {"a", "b", "x", "e", ":", "0"}
         THEN "string"
    ELSE "invalid"

\* lines 216-223: does the e: line end the for loop?  JSON.parse throwing and
\* the TypeError of null.finishReason are caught; only an object with a
\* non-empty finishReason breaks
FinishBreaks(line) == JSONparse(SubSeq(line, 3, Len(line))) = "finish"

\* lines 203-225: the for loop over the lines of one chunk, from the
\* accumulated state st = [fullResult, finishCount]
RECURSIVE ProcessLines(_, _)
ProcessLines(lines, st) ==
    IF lines = << >> THEN st
    ELSE LET line == Head(lines) IN
         IF StartsWith(line, "0", ":")
         THEN ProcessLines(Tail(lines),
                  [st EXCEPT !.fullResult = @ \o ContentText(line)])
         ELSE IF StartsWith(line, "e", ":") /\ FinishBreaks(line)
         THEN [st EXCEPT !.finishCount = @ + 1]
         ELSE ProcessLines(Tail(lines), st)

\* the result returned without the fallback text
ResultOfNoFallback(fullResult) == fullResult

\* line 229: fullResult || 'Web automation completed successfully.'
ResultOf(fullResult) == IF fullResult = << >> THEN FallbackText ELSE fullResult

\* lines 230-235: the catch block returns the explanation
Caught(kind) ==
    [tool EXCEPT !.pc = "returned", !.failure = kind, !.result = FailureText(kind)]

\* lines 163-193: fetch and the status check
ToolFetch ==
    /\ tool.pc = "idle"
    /\ \E o \in {"ok", "rejected", "status", "nobody"}, w \in Wires :
          tool' = IF o = "rejected" THEN Caught("fetch")
                  ELSE IF o = "status" THEN Caught("status")
                  ELSE IF o = "nobody"
                       THEN [tool EXCEPT !.pc = "returned",
                                         !.result = ResultOf(tool.fullResult)]
                  ELSE [tool EXCEPT !.pc = "read", !.wire = w]
    /\ UNCHANGED <<dbVars, priorCount, envVars, reqVars, streamVars>>

\* lines 196-226: one reader.read() and the for loop over its chunk; the
\* body may be cut into chunks anywhere
ToolRead ==
    /\ tool.pc = "read"
    /\ tool.pos < Len(tool.wire)
    /\ \E k \in 1 .. (Len(tool.wire) - tool.pos) :
          LET chunk == SubSeq(tool.wire, tool.pos + 1, tool.pos + k)
              st == ProcessLines(Split(chunk),
                       [fullResult |-> tool.fullResult,
                        finishCount |-> tool.finishCount])
          IN tool' = [tool EXCEPT !.pos = @ + k, !.chunk = chunk,
                                  !.fullResult = st.fullResult,
                                  !.finishCount = st.finishCount]
    /\ UNCHANGED <<dbVars, priorCount, envVars, reqVars, streamVars>>

\* line 197: reader.read() rejects
ToolReadError ==
    /\ tool.pc = "read"
    /\ tool' = Caught("read")
    /\ UNCHANGED <<dbVars, priorCount, envVars, reqVars, streamVars>>

\* lines 198, 229: done, and the return of the result
ToolReturn ==
    /\ tool.pc = "read"
    /\ tool.pos = Len(tool.wire)
    /\ tool' = [tool EXCEPT !.pc = "returned", !.result = ResultOf(tool.fullResult)]
    /\ UNCHANGED <<dbVars, priorCount, envVars, reqVars, streamVars>>

\* ---------------------------------------------------------- specifications
Post(r) ==
    \/ PostParse(r)
    \/ PostAuth(r)
    \/ PostQuota(r)
    \/ PostGetChat(r)
    \/ PostSaveChat(r)
    \/ PostGetMessages(r)
    \/ PostSaveMessages(r)
    \/ PostCreateStreamId(r)
    \/ PostRespond(r)

Generation(r) ==
    \/ GenEmit(r)
    \/ GenEnd(r)
    \/ GenError(r)

Delete(r) ==
    \/ DeleteParse(r)
    \/ DeleteAuth(r)
    \/ DeleteGetChat(r)
    \/ DeleteChat(r)

Client(r) ==
    \/ Deliver(r)
    \/ Disconnect(r)
    \/ Reattach(r)

\* everything that can happen for request r
Handle(r) ==
    \/ Post(r)
    \/ Generation(r)
    \/ Publish(r)
    \/ Client(r)
    \/ OnFinish(r)
    \/ Delete(r)

\* one request, from its arrival to the end of its generation run
Next == Handle(1)

Spec == Init /\ [][Next]_vars

\* the event loop runs every callback that is ready, the model stream comes
\* to an end, and the resumable stream keeps reading the stream it was given;
\* nothing is assumed of the client
Fairness ==
    /\ WF_vars(Post(1))
    /\ WF_vars(Generation(1))
    /\ WF_vars(Publish(1))
    /\ WF_vars(OnFinish(1))

FairSpec == Init /\ [][Next]_vars /\ Fairness


\* one call of the web-automation tool, on its own
InitAdapter ==
    /\ Init
    /\ ~redisUrl
    /\ ~globalStreamContext
    /\ chats = [c \in ChatIds |-> NoUser]
    /\ priorCount = [u \in Users |-> maxMessagesPerDay(UserTypeOf(u))]

NextAdapter ==
    \/ ToolFetch
    \/ ToolRead
    \/ ToolReadError
    \/ ToolReturn

SpecAdapter == InitAdapter /\ [][NextAdapter]_vars

\* two POST requests in flight at once: the event loop runs their handlers
\* one awaited call at a time, in any order; no durable channel, and each
\* generation run ends without an event
InitRace ==
    /\ Init
    /\ ~redisUrl
    /\ ~globalStreamContext

NextRace ==
    \E r \in Reqs :
        \/ PostParse(r)
        \/ PostAuth(r)
        \/ PostQuota(r)
        \/ PostGetChat(r)
        \/ PostSaveChat(r)
        \/ PostGetMessages(r)
        \/ PostSaveMessages(r)
        \/ PostCreateStreamId(r)
        \/ PostRespond(r)
        \/ GenEnd(r)
        \/ OnFinish(r)

SpecRace == InitRace /\ [][NextRace]_vars


\* ------------------------------------------------------------------ claims
Thrown == {"chat_sdk_error:thrown", "internal_server_error:api", "exception"}

Cap(r) == maxMessagesPerDay(UserTypeOf(session[r]))

\* C1: a POST of an authenticated caller whose message count of the last
\* 24 hours equals the daily cap of the caller's tier is answered
\* rate_limit:chat, and one whose count is one below the cap is not
\* rate-limited.
C1_AtCapIsRateLimited ==
    \A r \in Reqs :
        (method[r] = "POST" /\ local[r].messageCount # -1) =>
            /\ (local[r].messageCount = Cap(r) => response[r] = "rate_limit:chat")
            /\ (local[r].messageCount = Cap(r) - 1 => response[r] # "rate_limit:chat")

\* the owner of the chat the request targets, as the request found it
TargetOwner(r) ==
    IF local[r].chat # NoUser THEN local[r].chat ELSE chats[body[r].id]

\* request r is a finished, well-formed request of an authenticated caller for
\* a chat that another user owns, and no collaborator call of it threw
ByOtherUser(r) ==
    /\ pc[r] = "done"
    /\ body[r].valid
    /\ session[r] \in Users
    /\ TargetOwner(r) \notin {NoUser, session[r]}
    /\ response[r] \notin Thrown

Rejections ==
    {"bad_request:api", "unauthorized:chat", "rate_limit:chat", "forbidden:chat"}

\* C3: a POST rejected with bad_request:api, unauthorized:chat,
\* rate_limit:chat or forbidden:chat has called none of saveChat, saveMessages,
\* createStreamId and streamText, and has left no row behind.
C3_RejectionHasNoSideEffect ==
    \A r \in Reqs :
        (method[r] = "POST" /\ response[r] \in Rejections) =>
            /\ fx[r] = {}
            /\ \A i \in DOMAIN messages : messages[i].req # r
            /\ local[r].streamId = 0
            /\ streams = {}
            /\ plan[r] = "none"
            /\ gen[r].status = "idle"

C3_Witness ==
    \E r \in Reqs :
        /\ method[r] = "POST"
        /\ response[r] = "forbidden:chat"
        /\ messages = InitialHistory(body[r].id)

C5_ExactlyOnce ==
    \A r \in Reqs :
        delivery[r] = "resumable" =>
            /\ Len(client[r].received) <= Len(UiEvents(r))
            /\ client[r].received = SubSeq(UiEvents(r), 1, Len(client[r].received))
            /\ (/\ client[r].attached
                /\ gen[r].status # "running"
                /\ client[r].cursor = Len(UiEvents(r)))
                 => client[r].received = UiEvents(r)

C5_Witness ==
    /\ delivery[1] = "resumable"
    /\ gen[1].status = "ended"
    /\ gen[1].produced >= 2
    /\ client[1].resumedAt >= 1
    /\ client[1].resumedAt < gen[1].produced
    /\ client[1].received = UiEvents(1)

\* request r got as far as building its stream and its response
ReachedDelivery(r) == "streamText" \in fx[r] /\ pc[r] # "respond"

\* C6, as claimed: a POST that reaches stream delivery without a usable
\* durable channel (no stream context, or the registration of the stream
\* failed) returns the stream directly, never an error response.
C6_NoChannelIsDirect ==
    \A r \in Reqs :
        (ReachedDelivery(r) /\ delivery[r] # "resumable") =>
            /\ response[r] = "stream"
            /\ delivery[r] = "direct"

\* C6, amended: a POST that reaches stream delivery when no stream context
\* can be created returns the stream directly; a failure of registering the
\* stream with an existing context is answered with the error response of
\* the catch block.
C6_NoContextIsDirect ==
    \A r \in Reqs :
        ReachedDelivery(r) =>
            /\ (~globalStreamContext) =>
                  (response[r] = "stream" /\ delivery[r] = "direct")
            /\ (delivery[r] = "none") =>
                  (globalStreamContext /\ response[r] \in Thrown)

C6_Witness ==
    \E r \in Reqs :
        /\ ReachedDelivery(r)
        /\ redisUrl
        /\ ~globalStreamContext
        /\ response[r] = "stream"
        /\ delivery[r] = "direct"

\* C7: once a finish record was seen the decoding has stopped: no content
\* record that comes after it, in the same chunk or in a later one, is
\* appended to the accumulated text.
C7_NothingAfterFinish ==
    [][tool.finishCount >= 1 => tool'.fullResult = tool.fullResult]_vars

\* C8: however the response body is cut into chunks, the accumulated text is
\* the text that the same body gives when it arrives as one chunk.
C8_ChunkingDoesNotMatter ==
    (tool.pc = "returned" /\ tool.failure = "none" /\ tool.wire # << >>) =>
        tool.fullResult =
            ProcessLines(Split(tool.wire),
                         [fullResult |-> << >>, finishCount |-> 0]).fullResult

\* a content record: the prefix 0: and a payload in double quotes
IsContentRecord(line) ==
    /\ Len(line) >= 5
    /\ SubSeq(line, 1, 3) = <<"0", ":", Q>>
    /\ \E i \in 4 .. Len(line) : line[i] = Q

\* the payload, from the quote after the prefix to the last quote of the line
Payload(line) ==
    LET last == CHOOSE i \in 4 .. Len(line) :
                   line[i] = Q /\ \A j \in (i + 1) .. Len(line) : line[j] # Q
    IN SubSeq(line, 4, last - 1)

\* a finish record: the prefix e: and an object with a non-empty finishReason
IsFinishRecord(line) == line = <<"e", ":", "F">>

\* the text of the well-formed content records of these lines, in order, up
\* to the first finish record; every other line is left out
RECURSIVE WellFormedText(_)
WellFormedText(lines) ==
    IF lines = << >> THEN << >>
    ELSE IF IsContentRecord(Head(lines))
         THEN Payload(Head(lines)) \o WellFormedText(Tail(lines))
    ELSE IF IsFinishRecord(Head(lines)) THEN << >>
    ELSE WellFormedText(Tail(lines))

\* C9: of the lines of a chunk, those that match neither prefix or have a
\* malformed payload add nothing to the accumulated text and do not end the
\* decoding: the chunk adds the text of its well-formed content records, in
\* order, and the loop goes on reading.
C9_MalformedLinesAreSkipped ==
    [][tool'.pos > tool.pos =>
          /\ tool'.fullResult =
                tool.fullResult \o WellFormedText(Split(tool'.chunk))
          /\ tool'.pc = "read"
          /\ tool'.failure = "none"]_vars

C9_Witness ==
    /\ tool.pc = "returned"
    /\ tool.wire = Join(<<ContentA, BadJson, ContentB>>)
    /\ tool.chunk = Join(<<BadJson, ContentB>>)
    /\ tool.result = <<"a", "b">>

\* C10: the handler always returns a result: the failure explanation when
\* fetch rejects, the status is not a success or a read fails, and the fixed
\* fallback text when the body ended and no content was accumulated, with a
\* finish record or without; never an empty result.
C10_AlwaysAResult ==
    /\ tool.pc \in {"idle", "read", "returned"}
    /\ tool.pc = "returned" =>
          /\ tool.result # << >>
          /\ tool.failure # "none" => tool.result = FailureText(tool.failure)
          /\ (tool.failure = "none" /\ tool.fullResult = << >>) =>
                tool.result = FallbackText

C10_Witness ==
    /\ tool.pc = "returned"
    /\ tool.failure = "none"
    /\ tool.wire = Join(<<BareContent, FinishLine>>)
    /\ tool.finishCount = 1
    /\ tool.result = FallbackText

\* the text content of a message has a keyword: one of its text parts has,
\* whatever the case of its letters
TextContentHasKeyword(parts) ==
    \E i \in DOMAIN parts :
        parts[i].type = "text" /\ includesKeyword(toLowerCase(parts[i].text))

\* C11: for every inbound message, with one text part or several and with or
\* without a text part in the first place, generation is routed to the
\* automation-biased plan if and only if the text content of the message has
\* one of the keywords, in any case; otherwise to the standard plan.
C11_RoutedByTextContent ==
    \A r \in Reqs :
        plan[r] # "none" =>
            IF TextContentHasKeyword(body[r].parts)
            THEN plan[r] \in {"automation", "fallback"}
            ELSE plan[r] = "standard"

DeleteOutcomes ==
    {"200", "bad_request:api", "unauthorized:chat", "forbidden:chat"}

\* C12: every DELETE ends with status 200 and the deleted chat, or with one
\* of the error responses bad_request:api (no id), unauthorized:chat (no
\* session) and forbidden:chat (owner mismatch); so does the DELETE of an
\* authenticated caller for a chat id that has no chat.
C12_DeleteEndsInOutcome ==
    \A r \in Reqs :
        (method[r] = "DELETE" /\ pc[r] = "done") =>
            /\ response[r] \in DeleteOutcomes
            /\ response[r] = "200" => chats[body[r].id] = NoUser

\* the error responses of the taxonomy for what a collaborator throws: the
\* ChatSDKError that was thrown, and the internal server error
TaxonomyOfThrown == {"chat_sdk_error:thrown", "internal_server_error:api"}

\* C13: a POST that ends before its response stream is returned ends with an
\* error response of the taxonomy (what was thrown when it is a ChatSDKError,
\* internal_server_error:api otherwise); once the stream was returned the
\* response stays the successful one, and a failure of the generation leaves
\* the response as it is and shows as the in-band error message, the last
\* event of the stream.
C13_FailureIsStructuredOrInBand ==
    [][\A r \in Reqs :
          method'[r] = "POST" =>
             /\ (pc[r] \notin {"streaming", "done"} /\ pc'[r] = "done") =>
                   response'[r] \in Rejections \cup TaxonomyOfThrown
             /\ response[r] = "stream" => response'[r] = "stream"
             /\ (gen[r].status = "running" /\ gen'[r].status = "errored") =>
                   /\ response'[r] = response[r]
                   /\ UiEvents(r)' = Append(UiEvents(r), ErrorEvent)]_vars

C13_Witness ==
    \E r \in Reqs :
        /\ response[r] = "stream"
        /\ gen[r].status = "errored"
        /\ gen[r].produced >= 1
        /\ pc[r] = "done"
        /\ client[r].received = UiEvents(r)
        /\ client[r].received[Len(client[r].received)] = ErrorEvent

\* context is the messages of chat c in the table, each once and in the order
\* of the table, and then the message new
IsHistoryThenMessage(context, table, c, new) ==
    LET rows == {i \in DOMAIN table : table[i].chatId = c} IN
    /\ Len(context) = Cardinality(rows) + 1
    /\ context[Len(context)] = new
    /\ \A i \in rows :
          context[Cardinality({j \in rows : j <= i})] = table[i].id

\* C14: when the chat has persisted messages, the context that the History
\* Assembler builds is these messages in their persisted order, none left
\* out, repeated or moved, and then the inbound message as the last element;
\* it is this context that generation is issued with.
C14_HistoryThenNewMessage ==
    [][\A r \in Reqs :
          /\ (/\ pc[r] = "getMessages"
              /\ pc'[r] = "saveMessages"
              /\ \E i \in DOMAIN messages : messages[i].chatId = body[r].id) =>
                 IsHistoryThenMessage(local'[r].uiMessages, messages,
                                      body[r].id, UserMsgId(r))
          /\ pc[r] \in {"saveMessages", "createStreamId", "respond"} =>
                 local'[r].uiMessages = local[r].uiMessages]_vars

C14_Witness ==
    \E r \in Reqs :
        /\ plan[r] # "none"
        /\ response[r] = "stream"
        /\ local[r].uiMessages = <<101, 102, UserMsgId(r)>>

\* C15: when the model stream of a run under the automation-biased plan fails
\* after the streaming call was issued, generation is issued again under the
\* standard preamble with the unavailability note, so no request ends with a
\* failed run of the automation-biased plan; the fallback is issued only for
\* a request that was routed to the automation-biased plan, and once.
C15_FailedAutomationFallsBack ==
    [][\A r \in Reqs :
          /\ (/\ response'[r] = "stream"
              /\ pc'[r] = "done"
              /\ gen'[r].status = "errored") => plan'[r] # "automation"
          /\ plan'[r] = "fallback" => isWebAutomationRequest(r)'
          /\ plan[r] = "fallback" =>
                (plan'[r] = "fallback" /\ gen'[r].status # "idle")]_vars

\* the rows of the table that hold a message of request r with this role
RowsOf(table, r, role) ==
    {i \in DOMAIN table : table[i].req = r /\ table[i].role = role}

AtOrOverCap(r) == getMessageCountByUserId(session[r]) >= Cap(r)

\* C17: the checks of a POST are made in the order validation,
\* authentication, quota, ownership, and the first one that fails decides the
\* answer: bad_request:api for a malformed body whatever the session,
\* unauthorized:chat for a caller without a session whatever the quota and
\* the owner, rate_limit:chat for a caller who has used up the daily cap even
\* when the chat belongs to somebody else.
C17_EarliestCheckDecides ==
    \A r \in Reqs :
        (method[r] = "POST" /\ pc[r] = "done" /\ response[r] \notin Thrown) =>
            /\ ~body[r].valid => response[r] = "bad_request:api"
            /\ (body[r].valid /\ session[r] = NoUser) =>
                  response[r] = "unauthorized:chat"
            /\ (/\ body[r].valid
                /\ session[r] \in Users
                /\ AtOrOverCap(r)
                /\ chats[body[r].id] \notin {NoUser, session[r]}) =>
                  response[r] = "rate_limit:chat"

\* request r is a POST that was answered with an error response
PreStreamError(r) ==
    /\ method[r] = "POST"
    /\ pc[r] = "done"
    /\ response[r] \in Rejections \cup TaxonomyOfThrown

\* C18, as claimed: after a POST that was answered with an error response,
\* whatever step failed, nothing that the request created is left: no chat
\* row, no user message, no StreamHandle.
C18_ErrorLeavesNothing ==
    \A r \in Reqs :
        PreStreamError(r) =>
            /\ "saveChat" \in fx[r] => chats[body[r].id] = NoUser
            /\ RowsOf(messages, r, "user") = {}
            /\ \A st \in streams : st.streamId # local[r].streamId

\* C18, amended: a POST writes nothing before its first writing call, and
\* the step that fails writes nothing; but nothing is taken back: when the
\* request goes on after saveChat the chat row it created is there, when it
\* goes on after saveMessages its user message is there, and when it goes on
\* after createStreamId its StreamHandle is there, also when the request is
\* then answered with an error response.
C18_FailingStepWritesNothing ==
    [][\A r \in Reqs :
          method'[r] = "POST" =>
             /\ fx'[r] = {} => dbVars' = dbVars
             /\ (pc[r] # "done" /\ PreStreamError(r)') => dbVars' = dbVars
             /\ ("saveChat" \in fx'[r] /\ fx'[r] # {"saveChat"}) =>
                   chats'[body'[r].id] = session'[r]
             /\ "createStreamId" \in fx'[r] =>
                   RowsOf(messages', r, "user") # {}
             /\ "streamText" \in fx'[r] =>
                   [streamId |-> local'[r].streamId, chatId |-> body'[r].id]
                      \in streams']_vars

C18_Witness ==
    \E r \in Reqs :
        /\ PreStreamError(r)
        /\ response[r] = "internal_server_error:api"
        /\ fx[r] = {"saveChat", "saveMessages", "createStreamId"}
        /\ chats[body[r].id] = session[r]
        /\ RowsOf(messages, r, "user") # {}
        /\ streams = {}

\* C19: however the POST requests of one caller interleave, no save of a
\* user message brings the number of user messages that the caller has
\* persisted in the last 24 hours above the daily cap of the caller's tier.
C19_SavesStayWithinCap ==
    [][\A u \in Users :
          getMessageCountByUserId(u)' > getMessageCountByUserId(u) =>
             getMessageCountByUserId(u)' <= maxMessagesPerDay(UserTypeOf(u))]_vars

====
